---- MODULE Spec2Model ----
(***************************************************************************)
(* Model of the appointment-assistant orchestration core and its web front: *)
(*   src/src/agent/middleware.py  CallLimit / Retry / PIIMasking wrappers  *)
(*   src/src/agent/graph.py       build_graph: nodes, edges, routers       *)
(*   src/src/agent/nodes.py       the step functions                       *)
(*   src/web_app.py               the PENDING store and the endpoints      *)
(* Spec: one behaviour is one engine invocation (graph.invoke) on one      *)
(* context.  Each wrapped-step invocation is unfolded into the calls and   *)
(* returns of the middleware layers, so that the order of the layers, the  *)
(* retry loop and the governor's short-circuit are observable.             *)
(* WebSpec: one behaviour is a sequence of HTTP requests handled by two    *)
(* worker threads over the shared store.                                   *)
(***************************************************************************)
EXTENDS Naturals, Sequences, FiniteSets

VARIABLES
    cfg,          \* how the graph was built: hitl_mode, max_node_calls, retries, topology
    state,        \* the AppointmentState dict threaded through the nodes
    node,         \* the engine's current node name, or END
    depth,        \* index into the wrapper chain of the frame in control (0 = engine)
    mode,         \* "idle" | "call" | "loop" | "return" | "raise" | "done" | "raised"
    i,            \* RetryMiddleware's loop variable
    last_err,     \* RetryMiddleware's last_err (None until an attempt fails)
    err,          \* the exception in flight while mode = "raise"
    callLog,      \* call/return events of the current wrapped invocation
    callSnap,     \* the context as it was when the current wrapped invocation began
    invocations,  \* wrapped-step invocations made by the engine in this run
    passed,       \* wrapped invocations the governor let through to the inner layers
    bodyRuns,     \* executions of a step function body in this run
    attempts,     \* executions of the step body within the current invocation
    sleeps,       \* time.sleep calls of the current invocation, in units of backoff_s
    tripped,      \* the governor short-circuited the current invocation
    exhausted,    \* the retry loop of the current invocation ran out of attempts
    failures,     \* injected step failures so far (bounded by MaxFailures)
    visited,      \* the nodes the engine has invoked in this run, in order
    PENDING,      \* web_app.PENDING: run_id -> reference of the stored context (NoRef: no entry)
    heap,         \* the context dicts the web process has created, by reference
    origin,       \* for each dict, the dict graph.invoke computed it from (NoRef: build_base_state)
    req,          \* per worker thread: the request it is handling, or handled last
    started,      \* requests received so far (bounded by MaxRequests)
    issued,       \* run ids handed out by new_run_id so far
    lastStored,   \* per run_id: the reference a handler stored last, NoRef once a handler consumed it
    consumed      \* per run_id: some handler has consumed the entry

engineVars == <<cfg, state, node, depth, mode, i, last_err, err, callLog, callSnap,
                invocations, passed, bodyRuns, attempts, sleeps, tripped, exhausted,
                failures, visited>>

webVars == <<PENDING, heap, origin, req, started, issued, lastStored, consumed>>

vars == <<engineVars, webVars>>

----------------------------------------------------------------------------
(* Bounds of the model *)

\* Largest small ceiling given to CallLimitMiddleware besides the built graph's 50.
MaxCeiling == 3
\* Largest retry count given to RetryMiddleware (the built graph uses 1).
MaxRetries == 1
\* Largest number of step failures injected in one run.
MaxFailures == 2
\* Largest number of HTTP requests the web process receives in one behaviour.
MaxRequests == 4

(* Program constants *)

\* CallLimitMiddleware(max_node_calls=50) in build_graph
BuiltMaxNodeCalls == 50
\* RetryMiddleware(retries=1, ...) in build_graph
BuiltRetries == 1

----------------------------------------------------------------------------
(* Values *)

\* Python's None
None == "None"
\* langgraph's END sentinel
END == "__end__"

READY == "READY"
NEED_INFO == "NEED_INFO"
ESCALATE == "ESCALATE"
TerminalStatus == {READY, NEED_INFO, ESCALATE}

\* Keyword classes a request text may contain (nodes.py tests `k in text`).
Keywords == {"reschedule", "cancel", "prep", "emergency"}

\* A request text, by what the steps read from it: the keyword classes present
\* and whether _extract_appointment_id finds an id in it.
UserInputs == [kw : SUBSET Keywords, appt_id : BOOLEAN]

\* Exceptions a step may raise.  All are subclasses of Exception, the class the
\* retry loop names in `except Exception`; interpreter-exit signals
\* (KeyboardInterrupt, SystemExit) end the process and are not step failures.
ErrKinds == {"OSError", "ValueError"}

\* Fixed response texts
GovernorFallback == "not able to safely complete; contact the clinic"
RetryFallback == "something went wrong; contact the clinic"
EmergencyText == "potential emergency; call emergency services"
NeedIdReschedule == "provide appointment ID and new window"
NeedIdCancel == "provide appointment ID"
NeedDetails == "provide more details"
EditedText == "edited by reviewer"

Nodes == {"classify_intent", "safety_check", "info_check", "handle_intent",
          "draft", "hitl", "finalize"}

----------------------------------------------------------------------------
(* The step functions (nodes.py).  Each is the effect of a whole body. *)

Trace(s, entry) == [s EXCEPT !.route_trace = Append(@, entry)]

\* Faulty variant: the step stores the text back without the keywords it matched.
node_classify_intent_rewrites_input(s) ==
    LET kw == s.user_input.kw
        intent == IF "reschedule" \in kw THEN "RESCHEDULE"
                  ELSE IF "cancel" \in kw THEN "CANCEL"
                  ELSE IF "prep" \in kw THEN "PREP_INFO"
                  ELSE "UNKNOWN"
    IN Trace([s EXCEPT !.intent = intent, !.user_input.kw = {}], "classify_intent")

node_classify_intent(s) ==
    LET kw == s.user_input.kw
        intent == IF "reschedule" \in kw THEN "RESCHEDULE"
                  ELSE IF "cancel" \in kw THEN "CANCEL"
                  ELSE IF "prep" \in kw THEN "PREP_INFO"
                  ELSE "UNKNOWN"
    IN Trace([s EXCEPT !.intent = intent], "classify_intent")

node_safety_check(s) ==
    IF "emergency" \in s.user_input.kw
    THEN Trace([s EXCEPT !.risk_flag = TRUE,
                         !.terminal_status = ESCALATE,
                         !.final_response = EmergencyText], "safety_escalate")
    ELSE Trace([s EXCEPT !.risk_flag = FALSE], "safety_ok")

node_check_missing_info(s) ==
    LET found == s.user_input.appt_id \/ s.meta.appointment_id # None
        missing == IF s.intent \in {"RESCHEDULE", "CANCEL"} /\ ~found
                   THEN <<"appointment_id">> ELSE <<>>
        s1 == [s EXCEPT !.missing_info = missing]
    IN IF missing # <<>>
       THEN Trace([s1 EXCEPT !.terminal_status = NEED_INFO,
                             !.final_response =
                                 IF s.intent = "RESCHEDULE" THEN NeedIdReschedule
                                 ELSE IF s.intent = "CANCEL" THEN NeedIdCancel
                                 ELSE NeedDetails], "need_info")
       ELSE Trace(s1, "info_complete")

node_handle_intent(s) ==
    LET action == IF s.intent = "RESCHEDULE" THEN "reschedule"
                  ELSE IF s.intent = "CANCEL" THEN "cancel"
                  ELSE IF s.intent = "PREP_INFO" THEN "prep_info"
                  ELSE "unknown"
    IN Trace([s EXCEPT !.meta.intent_payload = action], "handle_intent")

\* The draft texts; the four PREP_INFO texts (MRI, CT, ultrasound, other) are
\* all non-empty literals and are one value here.
DraftText(intent) ==
    IF intent = "RESCHEDULE" THEN "draft: rescheduling noted"
    ELSE IF intent = "CANCEL" THEN "draft: cancellation recorded"
    ELSE IF intent = "PREP_INFO" THEN "draft: preparation instructions"
    ELSE "draft: which would you like"

node_generate_draft(s) ==
    Trace([s EXCEPT !.draft_response = DraftText(s.intent)], "draft_generated")

\* decision and edited are what the two input() calls return (stripped).
node_human_review(s, decision, edited) ==
    LET s1 == IF decision = "e"
              THEN Trace([s EXCEPT !.final_response =
                             IF edited # "" THEN edited ELSE s.draft_response],
                         "hitl_edit")
              ELSE Trace([s EXCEPT !.final_response = s.draft_response],
                         "hitl_approve")
    IN Trace([s1 EXCEPT !.terminal_status = READY], "hitl_completed")

\* Faulty variant: the trace is assigned instead of appended to.
node_hitl_pause_reset(s) == [s EXCEPT !.route_trace = <<"hitl_pause">>]

node_hitl_pause(s) == Trace(s, "hitl_pause")

\* Faulty variant: the status is defaulted but no trace entry is appended.
node_finalize_no_trace(s) ==
    IF s.terminal_status = None THEN [s EXCEPT !.terminal_status = READY] ELSE s

node_finalize(s) ==
    Trace(IF s.terminal_status = None
          THEN [s EXCEPT !.terminal_status = READY] ELSE s, "finalize")

\* The function bound to a node name by graph.add_node.
NodeFn(n, hitl_mode, s, decision, edited) ==
    CASE n = "classify_intent" -> node_classify_intent(s)
      [] n = "safety_check"    -> node_safety_check(s)
      [] n = "info_check"      -> node_check_missing_info(s)
      [] n = "handle_intent"   -> node_handle_intent(s)
      [] n = "draft"           -> node_generate_draft(s)
      [] n = "hitl"            -> IF hitl_mode = "cli"
                                  THEN node_human_review(s, decision, edited)
                                  ELSE node_hitl_pause(s)
      [] n = "finalize"        -> node_finalize(s)

----------------------------------------------------------------------------
(* logging_utils.mask_pii on a text given as its sequence of tokens.         *)
(* Tokens: "appt" (appt/appointment), "id", "ab" (a word shorter than three  *)
(* characters), "abc123" (three or more of [A-Za-z0-9-]), "12" (fewer than   *)
(* three digits), "1234" (three or more digits), "***" (the placeholder).    *)

Tokens == {"appt", "id", "ab", "abc123", "12", "1234", "***"}
\* tokens that match [A-Za-z0-9\-]{3,}
IdLike == {"appt", "abc123", "1234"}
\* tokens that match \d{3,}
LongDigits == {"1234"}

\* repl_appt: `token.replace(m.group(1), "***")` replaces every occurrence of the
\* captured id inside the matched text, so a captured "appt" takes the keyword
\* with it.
ReplAppt(matched, id) == [k \in 1..Len(matched) |-> IF matched[k] = id THEN "***" ELSE matched[k]]

\* _APPT_ID_RE.sub(repl_appt, text): after "appt" and an optional "id", an
\* id-like token is captured; scanning resumes after the match.
RECURSIVE MaskApptIds(_)
MaskApptIds(t) ==
    IF t = <<>> THEN <<>>
    ELSE IF Head(t) = "appt" /\ Len(t) >= 3 /\ t[2] = "id" /\ t[3] \in IdLike
         THEN ReplAppt(SubSeq(t, 1, 3), t[3]) \o MaskApptIds(SubSeq(t, 4, Len(t)))
    ELSE IF Head(t) = "appt" /\ Len(t) >= 2 /\ t[2] \in IdLike
         THEN ReplAppt(SubSeq(t, 1, 2), t[2]) \o MaskApptIds(SubSeq(t, 3, Len(t)))
    ELSE <<Head(t)>> \o MaskApptIds(Tail(t))

\* _DIGIT_ID_RE.sub("***", text)
MaskDigits(t) == [k \in 1..Len(t) |-> IF t[k] \in LongDigits THEN "***" ELSE t[k]]

mask_pii(text) == IF text = <<>> THEN text ELSE MaskDigits(MaskApptIds(text))

----------------------------------------------------------------------------
(* The middleware (middleware.py) *)

\* The stack build_graph passes to apply_middleware, first entry first.
middleware_stack == <<"CallLimit", "Retry", "PIIMask">>

Reverse(s) == [k \in 1..Len(s) |-> s[Len(s) + 1 - k]]

\* `for m in reversed(middleware): wrapped = m(wrapped)`: each wrapper goes around
\* what has been built so far.  A wrapped function is the sequence of its layers,
\* outermost first, ending with the raw function.
RECURSIVE WrapAll(_, _)
WrapAll(wrapped, ms) ==
    IF ms = <<>> THEN wrapped ELSE WrapAll(<<Head(ms)>> \o wrapped, Tail(ms))

\* Faulty variant: the list is walked front to back, so the first entry ends up
\* innermost.
apply_middleware_unreversed(fn, middleware) == WrapAll(<<fn>>, middleware)

apply_middleware(fn, middleware) == WrapAll(<<fn>>, Reverse(middleware))

\* The wrapped function registered for every node.
Chain == apply_middleware("fn", middleware_stack)

\* The layer in control (depth 0 is the engine).
Layer == IF depth \in 1..Len(Chain) THEN Chain[depth] ELSE "engine"

\* Faulty variant: the comparison is off by one and lets one more call through.
CallLimitExceededOffByOne(calls, max_node_calls) == calls > max_node_calls + 1

\* CallLimitMiddleware: `calls > self.max_node_calls`
CallLimitExceeded(calls, max_node_calls) == calls > max_node_calls

\* Faulty variant: the trace is assigned instead of appended to.
CallLimitStopOverwritesTrace(s) ==
    [s EXCEPT !.terminal_status = ESCALATE,
              !.final_response = GovernorFallback,
              !.route_trace = <<"call_limit_exceeded">>]

\* CallLimitMiddleware: the hard stop written into the context
CallLimitStop(s) ==
    Trace([s EXCEPT !.terminal_status = ESCALATE,
                    !.final_response = GovernorFallback], "call_limit_exceeded")

\* Faulty variant: the loop runs one iteration too many.
RetryHasAttemptExtra(k, retries) == k < retries + 2

\* RetryMiddleware: `for i in range(self.retries + 1)` has another iteration
RetryHasAttempt(k, retries) == k < retries + 1

\* Faulty variant: the handler names one exception class only.
RetryCatchesOSErrorOnly(kind) == kind = "OSError"

\* RetryMiddleware: `except Exception` catches the exception in flight
RetryCatches(kind) == kind \in ErrKinds

\* RetryMiddleware: the delay of time.sleep(self.backoff_s * (2**i)), in backoff_s
Backoff(k) == 2 ^ k

\* RetryMiddleware: the escalation written after the loop
RetryEscalate(s, kind) ==
    Trace([s EXCEPT !.terminal_status = ESCALATE,
                    !.final_response = RetryFallback], "node_error:" \o kind)

\* Faulty variant: the returned context is handed on as the step left it.
PIIMaskOutUnmasked(s) == s

\* PIIMaskingLogMiddleware: the post-processing of the returned context
PIIMaskOut(s) ==
    IF s.meta.has_debug THEN [s EXCEPT !.meta.debug = mask_pii(@)] ELSE s

----------------------------------------------------------------------------
(* The graph (graph.py) *)

entry_point == "classify_intent"

\* Faulty variant: the router tests for the wrong terminal status.
route_after_safety_need_info(s) ==
    IF s.terminal_status = NEED_INFO THEN END ELSE "info_check"

route_after_safety(s) ==
    IF s.terminal_status = ESCALATE THEN END ELSE "info_check"

\* Faulty variant: the test is inverted.
route_after_info_inverted(s) ==
    IF s.terminal_status # NEED_INFO THEN END ELSE "handle_intent"

route_after_info(s) ==
    IF s.terminal_status = NEED_INFO THEN END ELSE "handle_intent"

\* Faulty variant: the blocking branch routes back to a node that already ran.
route_after_hitl_back(hitl_mode) ==
    IF hitl_mode # "cli" THEN END ELSE "draft"

\* Faulty variant: the blocking branch names the hitl node itself.
route_after_hitl_self(hitl_mode) ==
    IF hitl_mode # "cli" THEN END ELSE "hitl"

\* Faulty variant: the hitl mode is not looked at.
route_after_hitl_always_finalize(hitl_mode) == "finalize"

route_after_hitl(hitl_mode) ==
    IF hitl_mode # "cli" THEN END ELSE "finalize"

\* The router of the call-limit test: the non-terminal branch of route_after_info
\* goes back to the entry node, so classify -> safety -> info repeats.
route_back_after_info(s) ==
    IF s.terminal_status = NEED_INFO THEN END ELSE entry_point

\* The nodes on the cycle that router closes.
CycleNodes == {"classify_intent", "safety_check", "info_check"}

\* The outgoing edge of node n, as add_edge / add_conditional_edges declare it.
NextNode(n, s, c) ==
    CASE n = "classify_intent" -> "safety_check"
      [] n = "safety_check"    -> route_after_safety(s)
      [] n = "info_check"      -> IF c.topology = "cycle"
                                  THEN route_back_after_info(s)
                                  ELSE route_after_info(s)
      [] n = "handle_intent"   -> "draft"
      [] n = "draft"           -> "hitl"
      [] n = "hitl"            -> route_after_hitl(c.hitl_mode)
      [] n = "finalize"        -> END

----------------------------------------------------------------------------
(* Initial states: a freshly created context and a built graph *)

\* build_graph's own configuration, in either hitl mode.
BuiltConfigs ==
    [hitl_mode : {"cli", "pause"}, max_node_calls : {BuiltMaxNodeCalls},
     retries : {BuiltRetries}, topology : {"built"}]

\* The same middleware with small ceilings and other retry counts, on the built
\* topology and on the cyclic one of the call-limit test (which never reaches the
\* hitl node, so its hitl mode is immaterial).
TestConfigs ==
    [hitl_mode : {"cli", "pause"}, max_node_calls : 0..MaxCeiling,
     retries : 0..MaxRetries, topology : {"built"}]
    \cup
    [hitl_mode : {"cli"}, max_node_calls : 0..MaxCeiling,
     retries : 0..MaxRetries, topology : {"cycle"}]

Configs == BuiltConfigs \cup TestConfigs

IsBuilt == cfg \in BuiltConfigs

\* Debug texts a caller may have left in meta["debug"] (absent in main.py and
\* build_base_state).  They are given to the built graph; the test configurations
\* run on contexts without the key, as the smoke test's does.
DebugInputs == {<<"appt", "abc123", "12", "1234">>}

\* The context main.py / build_base_state / the smoke test create: every field
\* present, terminal_status unset, empty trace, no call counter yet in meta.
\* has_debug stands for `"debug" in meta`; node_calls 0 for the absent counter,
\* suggested_slot None for the absent key.  model_provider and insurance_id are
\* read by no step and no handler branch and are left out.
NewState(user_input, appointment_id, has_debug, debug) ==
    [run_id |-> "run1",
     user_input |-> user_input,
     intent |-> None,
     risk_flag |-> FALSE,
     missing_info |-> <<>>,
     draft_response |-> None,
     final_response |-> None,
     terminal_status |-> None,
     route_trace |-> <<>>,
     meta |-> [node_calls |-> 0,
               appointment_id |-> appointment_id,
               intent_payload |-> None,
               suggested_slot |-> None,
               has_debug |-> has_debug,
               debug |-> debug]]

\* What PENDING.get returns for a key without entry (Python's None), as a reference.
NoRef == 0

\* The ids new_run_id hands out (timestamp plus random suffix: each one is new),
\* in the order of the /intake requests that obtain them.
RunIdSeq == <<"run1">>

\* The values the run_id form field of a request may carry: the issued ids, and
\* one that no /intake has issued.
RunIds == {RunIdSeq[k] : k \in 1..Len(RunIdSeq)} \cup {"run0"}

\* The worker threads that run the (synchronous) endpoint functions.
Threads == {"t1", "t2"}

\* A worker thread that has handled no request yet.
IdleReq ==
    [pc |-> "idle",        \* "idle" | "got" (past PENDING.get) | "worked" (before pop / store)
     handler |-> None,     \* "intake" | "confirm" | "slot" | "review"
     run_id |-> None,      \* the run_id form field
     yes |-> FALSE,        \* proceed = yes / accept = yes / action # edit
     edited |-> "",        \* the edited_text form field, stripped
     state |-> NoRef,      \* the handler's local `state`
     out |-> NoRef,        \* the handler's local `out`
     path |-> None,        \* the branch of the handler the request took
     pops |-> 0,           \* PENDING.pop calls made by the request
     stores |-> 0,         \* PENDING[run_id] = ... assignments made by the request
     invokes |-> 0,        \* graph.invoke calls made by the request
     storedAtGet |-> NoRef, \* what a handler had stored last under the id (NoRef: nothing, or consumed) when the request read the store
     entryAfter |-> FALSE] \* the store held an entry for the id when the request finished

\* The web process right after start-up: empty store, no request received.
WebIdle ==
    /\ PENDING = [id \in RunIds |-> NoRef]
    /\ heap = <<>>
    /\ origin = <<>>
    /\ req = [t \in Threads |-> IdleReq]
    /\ started = 0
    /\ issued = 0
    /\ lastStored = [id \in RunIds |-> NoRef]
    /\ consumed = [id \in RunIds |-> FALSE]

Init ==
    /\ WebIdle
    /\ cfg \in Configs
    /\ \E u \in UserInputs, a \in {None, "A-1001"},
          d \in {<<>>} \cup (IF cfg \in BuiltConfigs THEN DebugInputs ELSE {}) :
           state = NewState(u, a, d # <<>>, d)
    /\ node = entry_point
    /\ depth = 0
    /\ mode = "idle"
    /\ i = 0
    /\ last_err = None
    /\ err = None
    /\ callLog = <<>>
    /\ callSnap = state
    /\ invocations = 0
    /\ passed = 0
    /\ bodyRuns = 0
    /\ attempts = 0
    /\ sleeps = <<>>
    /\ tripped = FALSE
    /\ exhausted = FALSE
    /\ failures = 0
    /\ visited = <<>>

----------------------------------------------------------------------------
(* The engine and the wrapper chain, one call or return per action *)

Log(layer, event) == callLog' = Append(callLog, <<layer, event>>)

\* The engine invokes the current node's wrapped function.
EngineInvoke ==
    /\ mode = "idle"
    /\ node # END
    /\ depth' = 1
    /\ mode' = "call"
    /\ invocations' = invocations + 1
    /\ callLog' = <<>>
    /\ callSnap' = state
    /\ attempts' = 0
    /\ sleeps' = <<>>
    /\ tripped' = FALSE
    /\ exhausted' = FALSE
    /\ i' = 0
    /\ last_err' = None
    /\ visited' = Append(visited, node)
    /\ UNCHANGED webVars
    /\ UNCHANGED <<cfg, state, node, err, passed, bodyRuns, failures>>

\* CallLimitMiddleware.wrapped up to its `if`: count the call; below the ceiling,
\* call the inner function.
CallLimitPass ==
    /\ mode = "call"
    /\ Layer = "CallLimit"
    /\ LET calls == state.meta.node_calls + 1 IN
         /\ ~CallLimitExceeded(calls, cfg.max_node_calls)
         /\ state' = [state EXCEPT !.meta.node_calls = calls]
    /\ depth' = depth + 1
    /\ passed' = passed + 1
    /\ Log("CallLimit", "call")
    /\ UNCHANGED webVars
    /\ UNCHANGED <<visited, cfg, node, mode, i, last_err, err, callSnap, invocations,
                   bodyRuns, attempts, sleeps, tripped, exhausted, failures>>

\* CallLimitMiddleware.wrapped, the hard stop: the inner function is not called.
CallLimitTrip ==
    /\ mode = "call"
    /\ Layer = "CallLimit"
    /\ LET calls == state.meta.node_calls + 1 IN
         /\ CallLimitExceeded(calls, cfg.max_node_calls)
         /\ state' = CallLimitStop([state EXCEPT !.meta.node_calls = calls])
    /\ depth' = depth - 1
    /\ mode' = "return"
    /\ tripped' = TRUE
    /\ callLog' = callLog \o <<<<"CallLimit", "call">>, <<"CallLimit", "return">>>>
    /\ UNCHANGED webVars
    /\ UNCHANGED <<visited, cfg, node, i, last_err, err, callSnap, invocations, passed,
                   bodyRuns, attempts, sleeps, exhausted, failures>>

\* RetryMiddleware.wrapped is entered: last_err = None, the loop starts at i = 0.
RetryCall ==
    /\ mode = "call"
    /\ Layer = "Retry"
    /\ i' = 0
    /\ last_err' = None
    /\ mode' = "loop"
    /\ Log("Retry", "call")
    /\ UNCHANGED webVars
    /\ UNCHANGED <<visited, cfg, state, node, depth, err, callSnap, invocations, passed,
                   bodyRuns, attempts, sleeps, tripped, exhausted, failures>>

\* One iteration of the retry loop begins: `return fn(state)` calls the inner function.
RetryAttempt ==
    /\ mode = "loop"
    /\ Layer = "Retry"
    /\ RetryHasAttempt(i, cfg.retries)
    /\ depth' = depth + 1
    /\ mode' = "call"
    /\ Log("Retry", "attempt")
    /\ UNCHANGED webVars
    /\ UNCHANGED <<visited, cfg, state, node, i, last_err, err, callSnap, invocations, passed,
                   bodyRuns, attempts, sleeps, tripped, exhausted, failures>>

\* `except Exception as e`: remember the error, sleep, go to the next iteration.
RetryCatch ==
    /\ mode = "raise"
    /\ Layer = "Retry"
    /\ RetryCatches(err)
    /\ last_err' = err
    /\ err' = None
    /\ sleeps' = Append(sleeps, Backoff(i))
    /\ i' = i + 1
    /\ mode' = "loop"
    /\ Log("Retry", "catch")
    /\ UNCHANGED webVars
    /\ UNCHANGED <<visited, cfg, state, node, depth, callSnap, invocations, passed,
                   bodyRuns, attempts, tripped, exhausted, failures>>

\* The loop is over without a return: escalate safely and return the context.
RetryExhausted ==
    /\ mode = "loop"
    /\ Layer = "Retry"
    /\ ~RetryHasAttempt(i, cfg.retries)
    /\ state' = RetryEscalate(state, last_err)
    /\ exhausted' = TRUE
    /\ depth' = depth - 1
    /\ mode' = "return"
    /\ Log("Retry", "return")
    /\ UNCHANGED webVars
    /\ UNCHANGED <<visited, cfg, node, i, last_err, err, callSnap, invocations, passed,
                   bodyRuns, attempts, sleeps, tripped, failures>>

\* PIIMaskingLogMiddleware.wrapped is entered: `out = fn(state)`.
PIIMaskCall ==
    /\ mode = "call"
    /\ Layer = "PIIMask"
    /\ depth' = depth + 1
    /\ Log("PIIMask", "call")
    /\ UNCHANGED webVars
    /\ UNCHANGED <<visited, cfg, state, node, mode, i, last_err, err, callSnap, invocations,
                   passed, bodyRuns, attempts, sleeps, tripped, exhausted, failures>>

\* The step function body runs: it returns the updated context, or raises, either
\* before it changed anything or after its writes to the (shared) dict.
StepBody ==
    /\ mode = "call"
    /\ Layer = "fn"
    /\ bodyRuns' = bodyRuns + 1
    /\ attempts' = attempts + 1
    /\ depth' = depth - 1
    /\ \E decision \in (IF node = "hitl" /\ cfg.hitl_mode = "cli" THEN {"a", "e"} ELSE {"a"}),
          edited \in (IF node = "hitl" /\ cfg.hitl_mode = "cli" THEN {"", EditedText} ELSE {""}),
          outcome \in {"return"} \cup (IF failures < MaxFailures THEN {"raise"} ELSE {}) :
         LET done == NodeFn(node, cfg.hitl_mode, state, decision, edited) IN
           IF outcome = "return"
           THEN /\ state' = done
                /\ mode' = "return"
                /\ callLog' = callLog \o <<<<"fn", "call">>, <<"fn", "return">>>>
                /\ UNCHANGED <<err, failures>>
           ELSE /\ \E kind \in ErrKinds, partial \in BOOLEAN :
                      /\ state' = IF partial THEN done ELSE state
                      /\ err' = kind
                /\ mode' = "raise"
                /\ failures' = failures + 1
                /\ callLog' = callLog \o <<<<"fn", "call">>, <<"fn", "raise">>>>
    /\ UNCHANGED webVars
    /\ UNCHANGED <<visited, cfg, node, i, last_err, callSnap, invocations, passed, sleeps,
                   tripped, exhausted>>

\* A return value passes up through a layer: Retry and CallLimit hand it on
\* unchanged (`return fn(state)`), PIIMask masks meta["debug"] first.
LayerReturn ==
    /\ mode = "return"
    /\ Layer \in {"CallLimit", "Retry", "PIIMask"}
    /\ state' = IF Layer = "PIIMask" THEN PIIMaskOut(state) ELSE state
    /\ depth' = depth - 1
    /\ Log(Layer, "return")
    /\ UNCHANGED webVars
    /\ UNCHANGED <<visited, cfg, node, mode, i, last_err, err, callSnap, invocations, passed,
                   bodyRuns, attempts, sleeps, tripped, exhausted, failures>>

\* An exception passes up through a layer that has no handler for it; past the
\* outermost layer it reaches the engine and graph.invoke raises.
LayerRaise ==
    /\ mode = "raise"
    /\ depth > 0
    /\ ~(Layer = "Retry" /\ RetryCatches(err))
    /\ depth' = depth - 1
    /\ mode' = IF depth = 1 THEN "raised" ELSE "raise"
    /\ Log(Layer, "raise")
    /\ UNCHANGED webVars
    /\ UNCHANGED <<visited, cfg, state, node, i, last_err, err, callSnap, invocations, passed,
                   bodyRuns, attempts, sleeps, tripped, exhausted, failures>>

\* The wrapped function returned to the engine: follow the node's outgoing edge.
EngineRoute ==
    /\ mode = "return"
    /\ depth = 0
    /\ node' = NextNode(node, state, cfg)
    /\ mode' = IF node' = END THEN "done" ELSE "idle"
    /\ UNCHANGED webVars
    /\ UNCHANGED <<visited, cfg, state, depth, i, last_err, err, callLog, callSnap, invocations,
                   passed, bodyRuns, attempts, sleeps, tripped, exhausted, failures>>

Next ==
    \/ EngineInvoke
    \/ CallLimitPass
    \/ CallLimitTrip
    \/ RetryCall
    \/ RetryAttempt
    \/ RetryCatch
    \/ RetryExhausted
    \/ PIIMaskCall
    \/ StepBody
    \/ LayerReturn
    \/ LayerRaise
    \/ EngineRoute

Spec == Init /\ [][Next]_vars

\* graph.invoke has returned the final context.
Returned == mode = "done"

----------------------------------------------------------------------------
(* The web application (web_app.py): the PENDING store and the request       *)
(* handlers.  FastAPI runs the `def` endpoints in worker threads, so two      *)
(* requests may be between their PENDING.get and their PENDING.pop / store    *)
(* at the same time; there is no lock in the module.  A handler is unfolded   *)
(* into the read of the store, its work on the context, and the final write   *)
(* to the store.                                                              *)

\* A request text as the web handlers and the steps read it: the keyword classes,
\* and whether the time slot extracted from it is one of the unavailable ones.
\* (The id is typed into its own form field, not into the text.)
\* One text per intent, an emergency text, and for a reschedule request both
\* outcomes of the slot check (the slot is read on the reschedule branch only).
WebInputs ==
    {u \in [kw : {{}, {"reschedule"}, {"cancel"}, {"prep"}, {"emergency"}},
            appt_id : {FALSE}, slot_taken : BOOLEAN] :
        u.slot_taken => "reschedule" \in u.kw}

\* Response texts written by the handlers
CancelText == "appointment cancelled successfully"
RescheduleText == "reschedule completed successfully"
AltAcceptedText == "reschedule completed successfully for "
AltDeclinedText == "no problem; book a new appointment"
FollowUpText == " do you have any other request?"
AlternativeSlot == "3:00pm"

\* build_graph(hitl_mode="pause")
WebConfig ==
    [hitl_mode |-> "pause", max_node_calls |-> BuiltMaxNodeCalls,
     retries |-> BuiltRetries, topology |-> "built"]

\* One wrapped-step invocation in which the step function returns at its first
\* attempt: the governor counts and lets the call pass or stops it, the step
\* runs, the redaction post-processes.
WrappedStep(n, s, c) ==
    LET calls == s.meta.node_calls + 1
        counted == [s EXCEPT !.meta.node_calls = calls]
    IN IF CallLimitExceeded(calls, c.max_node_calls)
       THEN CallLimitStop(counted)
       ELSE PIIMaskOut(NodeFn(n, c.hitl_mode, counted, "a", ""))

\* graph.invoke(state) when no step raises and no step asks for input: the
\* context the engine returns.
RECURSIVE RunGraph(_, _, _)
RunGraph(n, s, c) ==
    IF n = END THEN s
    ELSE LET out == WrappedStep(n, s, c) IN RunGraph(NextNode(n, out, c), out, c)

GraphInvoke(s, c) == RunGraph(entry_point, s, c)

\* build_base_state, with the id new_run_id returned
build_base_state(run_id, user_input, appointment_id) ==
    [NewState(user_input, appointment_id, FALSE, <<>>) EXCEPT !.run_id = run_id]

\* check_slot_availability: <<available, suggested alternative>>
check_slot_availability(user_input) ==
    IF user_input.slot_taken THEN <<FALSE, AlternativeSlot>> ELSE <<TRUE, "">>

\* Faulty variant: a store under a key that has an entry keeps the old entry.
PStoreKeepsFirst(P, run_id, ref) ==
    IF P[run_id] # NoRef THEN P ELSE [P EXCEPT ![run_id] = ref]

\* PENDING[run_id] = state
PStore(P, run_id, ref) == [P EXCEPT ![run_id] = ref]

\* PENDING.get(run_id)
PGet(P, run_id) == P[run_id]

\* Faulty variant: the entry is read, not removed.
PConsumeKeeps(P, run_id) == P

\* PENDING.pop(run_id, None)
PConsume(P, run_id) == [P EXCEPT ![run_id] = NoRef]

\* /confirm after graph.invoke: the branch taken and the context it leaves in `out`.
ConfirmBranch(out, user_input) ==
    IF out.terminal_status \in {NEED_INFO, ESCALATE}
    THEN [path |-> "ended_early", out |-> out]
    ELSE IF out.intent = "CANCEL"
    THEN [path |-> "cancel",
          out |-> node_finalize(Trace([out EXCEPT !.final_response = CancelText,
                                                  !.terminal_status = READY],
                                      "cancel_confirmed"))]
    ELSE IF out.intent = "RESCHEDULE"
    THEN LET checked == Trace(out, "slot_checked")
             avail == check_slot_availability(user_input)
         IN IF avail[1]
            THEN [path |-> "reschedule_success",
                  out |-> node_finalize(Trace([checked EXCEPT
                                                   !.final_response = RescheduleText,
                                                   !.terminal_status = READY],
                                              "reschedule_success"))]
            ELSE [path |-> "slot_pause",
                  out |-> [checked EXCEPT !.meta.suggested_slot = avail[2]]]
    ELSE [path |-> "review_pause", out |-> out]

\* /slot: what the handler does to the retrieved context
SlotDecision(s, accept) ==
    LET alt == IF s.meta.suggested_slot = None THEN "" ELSE s.meta.suggested_slot IN
    IF accept
    THEN node_finalize(Trace([s EXCEPT !.final_response = AltAcceptedText \o alt,
                                       !.terminal_status = READY],
                             "reschedule_alt_accepted"))
    ELSE node_finalize(Trace([s EXCEPT !.final_response = AltDeclinedText,
                                       !.terminal_status = READY],
                             "reschedule_alt_declined"))

\* /review: what the handler does to the retrieved context
ReviewDecision(s, approve, edited_text) ==
    LET draft == IF s.draft_response = None THEN "" ELSE s.draft_response
        s1 == IF ~approve
              THEN Trace([s EXCEPT !.final_response =
                              IF edited_text # "" THEN edited_text ELSE draft],
                         "hitl_edit")
              ELSE Trace([s EXCEPT !.final_response = draft], "hitl_approve")
        s2 == Trace([s1 EXCEPT !.terminal_status = READY], "hitl_done")
        s3 == IF s2.intent = "PREP_INFO"
              THEN Trace([s2 EXCEPT !.final_response = @ \o FollowUpText],
                         "prep_followup_added")
              ELSE s2
    IN node_finalize(s3)

\* Faulty variant: the cancel branch stores the context instead of removing it.
CommitOfCancelStores(path) ==
    IF path \in {"slot_pause", "review_pause", "cancel"} THEN "store" ELSE "pop"

\* The store operation each branch of a resume handler ends with.
CommitOf(path) ==
    IF path \in {"slot_pause", "review_pause"} THEN "store" ELSE "pop"

ResumeHandlers == {"confirm", "slot", "review"}

\* A new request is given to the first free worker thread.
FirstFree(t) == req[t].pc = "idle" /\ (t = "t1" \/ req["t1"].pc # "idle")

\* POST /intake: validate the form, build the context, store it under its new id.
Intake(t) ==
    /\ mode = "web"
    /\ FirstFree(t)
    /\ started < MaxRequests
    /\ started' = started + 1
    /\ \E complete \in BOOLEAN :
         IF complete
         THEN /\ issued < Len(RunIdSeq)
              /\ \E u \in WebInputs :
                   LET id == RunIdSeq[issued + 1]
                       ref == Len(heap) + 1
                   IN /\ heap' = Append(heap, build_base_state(id, u, "A-1001"))
                      /\ origin' = Append(origin, NoRef)
                      /\ PENDING' = PStore(PENDING, id, ref)
                      /\ lastStored' = [lastStored EXCEPT ![id] = ref]
                      /\ req' = [req EXCEPT ![t] =
                                   [IdleReq EXCEPT !.handler = "intake", !.run_id = id,
                                                   !.state = ref, !.path = "intake",
                                                   !.stores = 1, !.entryAfter = TRUE]]
              /\ issued' = issued + 1
         ELSE /\ req' = [req EXCEPT ![t] =
                           [IdleReq EXCEPT !.handler = "intake", !.path = "intake_error"]]
              /\ UNCHANGED <<PENDING, heap, origin, issued, lastStored>>
    /\ UNCHANGED consumed
    /\ UNCHANGED engineVars

\* POST /confirm, /slot or /review up to `if not state`: read the store; on a
\* miss redirect to the start page.
ResumeGet(t) ==
    /\ mode = "web"
    /\ FirstFree(t)
    /\ started < MaxRequests
    /\ started' = started + 1
    /\ \E h \in ResumeHandlers, id \in RunIds, yes \in BOOLEAN, edited \in {"", EditedText} :
         /\ (h # "review" \/ yes) => edited = ""
         /\ LET ref == PGet(PENDING, id) IN
              req' = [req EXCEPT ![t] =
                        [IdleReq EXCEPT !.handler = h, !.run_id = id, !.yes = yes,
                                        !.edited = edited, !.state = ref,
                                        !.storedAtGet = lastStored[id],
                                        !.pc = IF ref = NoRef THEN "idle" ELSE "got",
                                        !.path = IF ref = NoRef THEN "miss" ELSE None,
                                        !.entryAfter = (ref # NoRef)]]
    /\ UNCHANGED <<PENDING, heap, origin, issued, lastStored, consumed>>
    /\ UNCHANGED engineVars

\* /confirm between the read and the final store operation: on "no" nothing; on
\* "yes" the graph runs on the retrieved context and the branch works on `out`.
ConfirmWork(t) ==
    /\ req[t].pc = "got"
    /\ req[t].handler = "confirm"
    /\ IF req[t].yes
       THEN LET s == heap[req[t].state]
                b == ConfirmBranch(GraphInvoke(s, WebConfig), s.user_input)
            IN /\ heap' = Append(heap, b.out)
               /\ origin' = Append(origin, req[t].state)
               /\ req' = [req EXCEPT ![t].pc = "worked", ![t].path = b.path,
                                     ![t].out = Len(heap) + 1, ![t].invokes = @ + 1]
       ELSE /\ req' = [req EXCEPT ![t].pc = "worked", ![t].path = "decline"]
            /\ UNCHANGED <<heap, origin>>
    /\ UNCHANGED <<PENDING, started, issued, lastStored, consumed>>
    /\ UNCHANGED engineVars

\* /confirm's last store operation: PENDING.pop on the paths that end the run,
\* PENDING[run_id] = out on the two that pause it.
ConfirmCommit(t) ==
    /\ req[t].pc = "worked"
    /\ req[t].handler = "confirm"
    /\ LET id == req[t].run_id IN
         IF CommitOf(req[t].path) = "pop"
         THEN /\ PENDING' = PConsume(PENDING, id)
              /\ lastStored' = [lastStored EXCEPT ![id] = NoRef]
              /\ consumed' = [consumed EXCEPT ![id] = TRUE]
              /\ req' = [req EXCEPT ![t].pc = "idle", ![t].pops = @ + 1,
                                    ![t].entryAfter = (PENDING'[id] # NoRef)]
         ELSE /\ PENDING' = PStore(PENDING, id, req[t].out)
              /\ lastStored' = [lastStored EXCEPT ![id] = req[t].out]
              /\ req' = [req EXCEPT ![t].pc = "idle", ![t].stores = @ + 1,
                                    ![t].entryAfter = (PENDING'[id] # NoRef)]
              /\ UNCHANGED consumed
    /\ UNCHANGED <<heap, origin, started, issued>>
    /\ UNCHANGED engineVars

\* /slot between the read and the pop: the decision is written into the
\* retrieved dict.
SlotWork(t) ==
    /\ req[t].pc = "got"
    /\ req[t].handler = "slot"
    /\ heap' = [heap EXCEPT ![req[t].state] = SlotDecision(@, req[t].yes)]
    /\ req' = [req EXCEPT ![t].pc = "worked",
                          ![t].path = IF req[t].yes THEN "slot_accept" ELSE "slot_decline"]
    /\ UNCHANGED <<PENDING, origin, started, issued, lastStored, consumed>>
    /\ UNCHANGED engineVars

\* /review between the read and the pop: the review is written into the
\* retrieved dict.
ReviewWork(t) ==
    /\ req[t].pc = "got"
    /\ req[t].handler = "review"
    /\ heap' = [heap EXCEPT ![req[t].state] = ReviewDecision(@, req[t].yes, req[t].edited)]
    /\ req' = [req EXCEPT ![t].pc = "worked",
                          ![t].path = IF req[t].yes THEN "review_approve" ELSE "review_edit"]
    /\ UNCHANGED <<PENDING, origin, started, issued, lastStored, consumed>>
    /\ UNCHANGED engineVars

\* /slot's and /review's PENDING.pop(run_id, None), then the result page.
ResumeCommit(t) ==
    /\ req[t].pc = "worked"
    /\ req[t].handler \in {"slot", "review"}
    /\ LET id == req[t].run_id IN
         /\ PENDING' = PConsume(PENDING, id)
         /\ lastStored' = [lastStored EXCEPT ![id] = NoRef]
         /\ consumed' = [consumed EXCEPT ![id] = TRUE]
         /\ req' = [req EXCEPT ![t].pc = "idle", ![t].pops = @ + 1,
                               ![t].entryAfter = (PENDING'[id] # NoRef)]
    /\ UNCHANGED <<heap, origin, started, issued>>
    /\ UNCHANGED engineVars

\* The web process: no engine run of its own is unfolded; graph.invoke is
\* GraphInvoke inside /confirm.
WebInit ==
    /\ WebIdle
    /\ cfg = WebConfig
    /\ state = NewState([kw |-> {}, appt_id |-> FALSE], None, FALSE, <<>>)
    /\ node = END
    /\ depth = 0
    /\ mode = "web"
    /\ i = 0
    /\ last_err = None
    /\ err = None
    /\ callLog = <<>>
    /\ callSnap = state
    /\ invocations = 0
    /\ passed = 0
    /\ bodyRuns = 0
    /\ attempts = 0
    /\ sleeps = <<>>
    /\ tripped = FALSE
    /\ exhausted = FALSE
    /\ failures = 0
    /\ visited = <<>>

WebNext ==
    \/ \E t \in Threads : Intake(t)
    \/ \E t \in Threads : ResumeGet(t)
    \/ \E t \in Threads : ConfirmWork(t)
    \/ \E t \in Threads : ConfirmCommit(t)
    \/ \E t \in Threads : SlotWork(t)
    \/ \E t \in Threads : ReviewWork(t)
    \/ \E t \in Threads : ResumeCommit(t)

WebSpec == WebInit /\ [][WebNext]_vars

\* Engine runs and web-process behaviours together.
FullSpec == (Init \/ WebInit) /\ [][Next \/ WebNext]_vars

----------------------------------------------------------------------------
(* Helpers of the properties *)

\* The wrapped function has returned to the engine (before the edge is followed).
BackInEngine == mode = "return" /\ depth = 0

Last(s) == s[Len(s)]

IsPrefix(a, b) == Len(a) <= Len(b) /\ SubSeq(b, 1, Len(a)) = a

NodeErrorEntries == {"node_error:" \o k : k \in ErrKinds}

\* The entries appended to route_trace since the current invocation began.
Appended == SubSeq(state.route_trace, Len(callSnap.route_trace) + 1,
                   Len(state.route_trace))

NodeIndex(n) ==
    CASE n = "classify_intent" -> 1
      [] n = "safety_check"    -> 2
      [] n = "info_check"      -> 3
      [] n = "handle_intent"   -> 4
      [] n = "draft"           -> 5
      [] n = "hitl"            -> 6
      [] n = "finalize"        -> 7
      [] n = END               -> 8

\* A measure of the work left in a run over the built topology: the nodes still
\* ahead, and within the current invocation the steps still possible.
AttemptsLeft == IF i < cfg.retries + 1 THEN cfg.retries + 1 - i ELSE 0
InvocationBudget == 5 * (cfg.retries + 1) + 7
LocalRank ==
    CASE mode = "idle"                        -> 5 * (cfg.retries + 1) + 6
      [] mode = "call" /\ Layer = "CallLimit" -> 5 * (cfg.retries + 1) + 5
      [] mode = "call" /\ Layer = "Retry"     -> 5 * (cfg.retries + 1) + 4
      [] mode = "loop"                        -> 5 * AttemptsLeft + 3
      [] mode = "call" /\ Layer = "PIIMask"   -> 5 * AttemptsLeft + 2
      [] mode = "call" /\ Layer = "fn"        -> 5 * AttemptsLeft + 1
      [] mode = "raise"                       -> 5 * AttemptsLeft + depth - 3
      [] mode = "return"                      -> depth + 1
      [] OTHER                                -> 0
Rank == IF mode \in {"done", "raised"} THEN 0
        ELSE (8 - NodeIndex(node)) * InvocationBudget + LocalRank

\* The call/return events of one wrapped invocation of Governor(Retry(Redaction(S)))
\* that was not short-circuited: k failed attempts, then a successful one or the
\* escalation.
FailedAttempt ==
    <<<<"Retry", "attempt">>, <<"PIIMask", "call">>, <<"fn", "call">>,
      <<"fn", "raise">>, <<"PIIMask", "raise">>, <<"Retry", "catch">>>>
SuccessfulAttempt ==
    <<<<"Retry", "attempt">>, <<"PIIMask", "call">>, <<"fn", "call">>,
      <<"fn", "return">>, <<"PIIMask", "return">>, <<"Retry", "return">>>>
RECURSIVE Repeat(_, _)
Repeat(s, k) == IF k = 0 THEN <<>> ELSE s \o Repeat(s, k - 1)
ExpectedLog(failed, succeeded) ==
    <<<<"CallLimit", "call">>, <<"Retry", "call">>>>
    \o Repeat(FailedAttempt, failed)
    \o (IF succeeded THEN SuccessfulAttempt ELSE <<<<"Retry", "return">>>>)
    \o <<<<"CallLimit", "return">>>>

\* The outcomes ("return" / "raise") of the step body's executions in the current
\* invocation, in order.
FnOutcomes == SelectSeq(callLog, LAMBDA e : e[1] = "fn" /\ e[2] # "call")
FnCalls == SelectSeq(callLog, LAMBDA e : e = <<"fn", "call">>)

\* GraphInvoke is the engine run without step failures: a pause-mode run of the
\* unfolded engine in which no step failed returns what GraphInvoke computes
\* from the initial context.
GraphInvokeAgrees ==
    (Returned /\ failures = 0 /\ cfg.hitl_mode = "pause" /\ ~state.meta.has_debug) =>
        state = GraphInvoke(NewState(state.user_input, state.meta.appointment_id,
                                     FALSE, <<>>), cfg)

\* The handler paths that end a run, and the two that pause it.
EndingPaths ==
    {"decline", "ended_early", "cancel", "reschedule_success", "slot_accept",
     "slot_decline", "review_approve", "review_edit"}
PausingPaths == {"slot_pause", "review_pause"}

\* Thread t has handled a resume request (/confirm, /slot, /review) to its end.
Resumed(t) == req[t].handler \in ResumeHandlers /\ req[t].pc = "idle"

\* Thread t is between its PENDING.get, which found a context, and its pop / store.
Resuming(t) == req[t].handler \in ResumeHandlers /\ req[t].pc \in {"got", "worked"}

\* A request text that classify_intent resolves to CANCEL and safety_check
\* lets pass.
IsCancelRequest(u) ==
    "cancel" \in u.kw /\ "reschedule" \notin u.kw /\ "emergency" \notin u.kw

\* entry occurs in trace tr.
InTrace(tr, entry) == \E k \in 1..Len(tr) : tr[k] = entry

\* The handler paths that end with the result page, and the context the page
\* of a finished request shows (`out` in /confirm, `state` in /slot and /review).
ResultPaths == EndingPaths \ {"decline"}
PageContext(t) ==
    IF req[t].handler = "confirm" THEN heap[req[t].out] ELSE heap[req[t].state]

\* The trace entries that name a reason for the engine to stop, in a given
\* hitl mode, and those among them that go with ESCALATE.
EscalateEntries == {"safety_escalate", "call_limit_exceeded"} \cup NodeErrorEntries
StopEntries(hitl_mode) ==
    {"need_info"} \cup EscalateEntries
    \cup (IF hitl_mode = "cli" THEN {"finalize"} ELSE {"hitl_pause"})

\* The trace entries the steps of the pause-mode graph append, one per node.
PauseStepEntries ==
    {"classify_intent", "safety_ok", "safety_escalate", "info_complete", "need_info",
     "handle_intent", "draft_generated", "hitl_pause"}

\* The seven nodes in the order the claims list them.
NodeOrder ==
    <<"classify_intent", "safety_check", "info_check", "handle_intent", "draft",
      "hitl", "finalize">>

\* The engine has just followed the outgoing edge of the node it invoked last.
JustRouted == mode \in {"idle", "done"} /\ visited # <<>>

\* The context RetryMiddleware.wrapped received in the current invocation: the
\* one the engine passed in, with the governor's count added.
RetryEntryState == [callSnap EXCEPT !.meta.node_calls = @ + 1]

\* A text in which nothing is left for the masking to find: no token of three
\* or more digits, and no "appt" (with or without "id") followed by an id.
HasApptId(t) ==
    \E k \in 1..Len(t) :
        /\ t[k] = "appt"
        /\ \/ k + 1 <= Len(t) /\ t[k + 1] \in IdLike
           \/ k + 2 <= Len(t) /\ t[k + 1] = "id" /\ t[k + 2] \in IdLike
IsMasked(t) == ~HasApptId(t) /\ \A k \in 1..Len(t) : t[k] \notin LongDigits

----------------------------------------------------------------------------
(* Properties *)

\* C1 (as stated): whenever an engine invocation over the built graph returns, in
\* either hitl mode, terminal_status is READY, NEED_INFO or ESCALATE, never unset.
C1_StatusAlwaysSet ==
    (Returned /\ cfg.topology = "built") => state.terminal_status \in TerminalStatus

\* C1 (amended): in blocking mode the returned terminal_status is READY, NEED_INFO
\* or ESCALATE; in pause mode it is ESCALATE, NEED_INFO or unset, and it is unset
\* only when the run stopped behind the pause node (last trace entry hitl_pause).
C1_StatusSetUnlessPaused ==
    (Returned /\ cfg.topology = "built") =>
        IF cfg.hitl_mode = "cli"
        THEN state.terminal_status \in TerminalStatus
        ELSE \/ state.terminal_status \in {ESCALATE, NEED_INFO}
             \/ /\ state.terminal_status = None
                /\ state.route_trace # <<>>
                /\ Last(state.route_trace) = "hitl_pause"

\* C1 witness: a pause-mode run of the built graph that returned with the status unset.
C1_Witness ==
    Returned /\ IsBuilt /\ cfg.hitl_mode = "pause" /\ state.terminal_status = None

\* C2: over the built topology every step of a run strictly decreases a
\* natural-number measure, a run that has not returned can always take a step, no
\* exception reaches the engine, and at most seven wrapped steps are invoked: the
\* invocation reaches the terminal sentinel after finitely many invocations.
C2_Terminates ==
    /\ [][cfg.topology = "built" => Rank' < Rank]_vars
    /\ [](cfg.topology = "built" =>
            /\ invocations <= Cardinality(Nodes)
            /\ mode # "raised"
            /\ (~Returned => ENABLED Next))

\* C2 witness: a run of the built graph that returned after all seven nodes, with a
\* step failure on the way.
C2_Witness ==
    Returned /\ IsBuilt /\ invocations = Cardinality(Nodes) /\ failures > 0

\* C3 (as stated): whenever an engine invocation returns with terminal_status set,
\* final_response is a non-empty string.
C3_FinalResponseNonEmpty ==
    (Returned /\ cfg.topology = "built" /\ state.terminal_status \in TerminalStatus)
        => state.final_response \notin {None, ""}

\* C4 (as stated): no step function body is executed while terminal_status is
\* already ESCALATE or NEED_INFO.
C4_NoBodyAfterTerminal ==
    (cfg.topology = "built" /\ mode = "call" /\ Layer = "fn")
        => state.terminal_status \notin {ESCALATE, NEED_INFO}

\* C5: no exception reaches the engine; and when the retry loop ran out of
\* attempts, the context handed back to the engine has terminal_status ESCALATE,
\* the fixed fallback response, and exactly one node_error entry appended by this
\* invocation, the last one, naming the kind of the last failure.
C5_NeverRaisesAndEscalates ==
    /\ mode # "raised"
    /\ (BackInEngine /\ exhausted) =>
          /\ attempts = cfg.retries + 1
          /\ state.terminal_status = ESCALATE
          /\ state.final_response = RetryFallback
          /\ Appended # <<>>
          /\ Last(Appended) = "node_error:" \o last_err
          /\ Len(SelectSeq(Appended, LAMBDA e : e \in NodeErrorEntries)) = 1
          /\ IsPrefix(callSnap.route_trace, state.route_trace)

\* C5 witness: the built graph's retry loop (two attempts) ran out and the wrapped
\* function returned to the engine.
C5_Witness == BackInEngine /\ exhausted /\ IsBuilt /\ attempts = 2

\* C6 (as stated): with ceiling c, step bodies are executed at most c times in a
\* run, re-executions by the retry loop included.
C6_BodyRunsWithinCeiling == bodyRuns <= cfg.max_node_calls

\* C6 (amended): with ceiling c and retry count r, at most c wrapped invocations
\* get past the governor, so step bodies are executed at most c * (r + 1) times:
\* the governor counts wrapped invocations, not the retry loop's attempts.
C6_PassedWithinCeiling ==
    /\ passed <= cfg.max_node_calls
    /\ bodyRuns <= cfg.max_node_calls * (cfg.retries + 1)
    /\ (~tripped /\ mode # "idle" => attempts <= cfg.retries + 1)

\* C6 witness: a run that executed step bodies c * (r + 1) times, more than c.
C6_Witness ==
    /\ Returned
    /\ cfg.retries >= 1 /\ cfg.max_node_calls >= 1
    /\ bodyRuns = cfg.max_node_calls * (cfg.retries + 1)

\* C7 (as stated): on the cyclic topology a run that was routed back and reached
\* the ceiling ends with terminal_status ESCALATE after at most ceiling + 1
\* wrapped-step invocations.
C7_CycleEndsAtCeilingPlusOne ==
    (Returned /\ cfg.topology = "cycle"
        /\ invocations > Cardinality(CycleNodes)
        /\ state.meta.node_calls > cfg.max_node_calls)
        => /\ state.terminal_status = ESCALATE
           /\ invocations <= cfg.max_node_calls + 1

\* C8: when the governor trips, the inner layers and the step are not run, and the
\* context handed back differs from the one received only in meta.node_calls (one
\* more), terminal_status (ESCALATE), final_response (the fallback) and one
\* call_limit_exceeded entry appended to route_trace.
C8_TripFrame ==
    (BackInEngine /\ tripped) =>
        /\ state = [callSnap EXCEPT
                      !.meta.node_calls = @ + 1,
                      !.terminal_status = ESCALATE,
                      !.final_response = GovernorFallback,
                      !.route_trace = Append(@, "call_limit_exceeded")]
        /\ state.meta.node_calls > cfg.max_node_calls
        /\ callLog = <<<<"CallLimit", "call">>, <<"CallLimit", "return">>>>
        /\ attempts = 0
        /\ sleeps = <<>>

\* C8 witness: the governor tripped for the first time in a run, on a context that
\* earlier steps had already written to.
C8_Witness ==
    /\ BackInEngine /\ tripped
    /\ callSnap.route_trace # <<>>
    /\ callSnap.terminal_status = None

\* C9: the wrapped function is Governor(Retry(Redaction(S))): the chain built by
\* apply_middleware has the last list entry innermost, and every invocation that
\* is not short-circuited enters CallLimit, Retry, PIIMask and the step in that
\* order and returns through PIIMask, Retry and CallLimit in that order.
C9_LayerOrder ==
    /\ Chain[Len(Chain) - 1] = Last(middleware_stack)
    /\ (BackInEngine /\ ~tripped) =>
          callLog = ExpectedLog(IF exhausted THEN attempts ELSE attempts - 1,
                                ~exhausted)

\* C9 witness: an invocation that succeeded at its second attempt is back in the engine.
C9_Witness == BackInEngine /\ ~tripped /\ ~exhausted /\ attempts = 2

\* C10: within one wrapped invocation the step is attempted at most r + 1 times,
\* and every attempt but the last one made has failed: nothing follows a success.
C10_AttemptsBounded ==
    /\ attempts <= cfg.retries + 1
    /\ Len(FnCalls) = attempts
    /\ \A k \in 1..Len(FnOutcomes) :
          k < Len(FnCalls) => FnOutcomes[k] = <<"fn", "raise">>
    /\ \A k \in 1..Len(FnOutcomes) :
          FnOutcomes[k] = <<"fn", "return">> => k = Len(FnCalls)

\* C10 witness: in the built graph (r = 1) a second attempt was made and succeeded.
C10_Witness ==
    /\ BackInEngine /\ IsBuilt /\ ~exhausted
    /\ attempts = BuiltRetries + 1
    /\ FnOutcomes = <<<<"fn", "raise">>, <<"fn", "return">>>>

\* C11 (as stated): every attempt of a step, the first and each retry, receives
\* the context as it was when the retry loop was entered, and when the retries
\* are exhausted the returned context is that snapshot plus the escalation:
\* nothing a failed attempt wrote is seen by the next attempt or returned.
C11_RetryStartsFromSnapshot ==
    /\ (mode = "call" /\ Layer = "fn") => state = RetryEntryState
    /\ (BackInEngine /\ exhausted) => state = RetryEscalate(RetryEntryState, last_err)

C13_NodeSequence ==
    cfg.topology = "built" =>
      /\ IsPrefix(visited, NodeOrder)
      /\ JustRouted =>
            /\ Last(visited) = "safety_check" =>
                  ((node = END) <=> (state.terminal_status = ESCALATE))
            /\ Last(visited) = "info_check" =>
                  ((node = END) <=> (state.terminal_status = NEED_INFO))
            /\ Last(visited) = "hitl" => ((node = END) <=> (cfg.hitl_mode = "pause"))
            /\ Last(visited) = "finalize" => (node = END /\ cfg.hitl_mode = "cli")
            /\ Last(visited) \in {"classify_intent", "handle_intent", "draft"} =>
                  node # END
      /\ (Returned /\ Last(visited) = "safety_check") => state.draft_response = None
      /\ (Returned /\ Last(visited) = "info_check") =>
            \A k \in 1..Len(visited) : visited[k] # "draft"

\* C13 witness: a run of the built graph ended right after info_check with NEED_INFO.
C13_Witness ==
    /\ Returned /\ IsBuilt
    /\ visited = SubSeq(NodeOrder, 1, 3)
    /\ state.terminal_status = NEED_INFO

\* C14: within one engine invocation over the built graph no node is invoked
\* twice, and the node the router has just returned is not one that already ran.
C14_NoNodeTwice ==
    cfg.topology = "built" =>
      /\ \A a, b \in 1..Len(visited) : visited[a] = visited[b] => a = b
      /\ JustRouted => \A k \in 1..Len(visited) : visited[k] # node

\* C14 witness: a blocking-mode run went through all seven nodes.
C14_Witness == Returned /\ IsBuilt /\ Len(visited) = Len(NodeOrder)

\* C15: the store always holds, under each run_id, the reference a handler
\* stored last and nothing once a handler consumed it; every retrieve returned
\* exactly that; and on every reachable store, retrieve after store returns the
\* stored context, the later of two stores wins, and retrieve after consume
\* misses.
C15_StoreRetrieveConsume ==
    /\ PENDING = lastStored
    /\ \A t \in Threads :
          req[t].handler \in ResumeHandlers => req[t].state = req[t].storedAtGet
    /\ \A id \in RunIds, r1 \in 1..Len(heap), r2 \in 1..Len(heap) :
          /\ PGet(PStore(PENDING, id, r1), id) = r1
          /\ heap[PGet(PStore(PENDING, id, r1), id)] = heap[r1]
          /\ PGet(PStore(PStore(PENDING, id, r1), id, r2), id) = r2
          /\ PGet(PConsume(PStore(PENDING, id, r1), id), id) = NoRef
          /\ PGet(PConsume(PENDING, id), id) = NoRef

\* C15 witness: a run's context was stored by /intake and again by /confirm,
\* /review retrieved the later one and consumed the entry, and the next
\* request for that run_id missed.
C15_Witness ==
    \E t \in Threads, o \in 1..Len(heap) :
        /\ Resumed(t) /\ req[t].path = "miss" /\ consumed[req[t].run_id]
        /\ heap[o].run_id = req[t].run_id
        /\ origin[o] # NoRef
        /\ \E k \in 1..Len(heap[o].route_trace) : heap[o].route_trace[k] = "hitl_done"

\* C16 (state part): a resume request for a run_id that no handler has stored,
\* or that a handler has consumed, ends as a miss; a request that missed holds
\* no context, invoked no graph and made no store operation.
C16_MissDoesNothing ==
    \A t \in Threads :
        req[t].handler \in ResumeHandlers =>
            /\ req[t].storedAtGet = NoRef => (req[t].path = "miss" /\ req[t].pc = "idle")
            /\ req[t].path = "miss" =>
                  /\ req[t].pc = "idle"
                  /\ req[t].state = NoRef /\ req[t].out = NoRef
                  /\ req[t].invokes = 0 /\ req[t].pops = 0 /\ req[t].stores = 0

\* C16: the state part always holds, and the step in which a request misses
\* leaves the store and every context as they were.
C16_Miss ==
    /\ []C16_MissDoesNothing
    /\ [][\A t \in Threads :
             (req'[t] # req[t] /\ req'[t].path = "miss") =>
                 (PENDING' = PENDING /\ heap' = heap)]_vars

\* C16 witness: while a run's context was in the store, a request for an id
\* that has no entry missed.
C16_Witness ==
    \E t \in Threads, id \in RunIds :
        /\ Resumed(t) /\ req[t].path = "miss" /\ ~consumed[req[t].run_id]
        /\ PENDING[id] # NoRef /\ origin[PENDING[id]] # NoRef

\* C17: a resume request that found its context took one of the eight ending
\* paths, made exactly one pop and no store and left no entry for its run_id,
\* or took one of the two pausing paths, made exactly one store and no pop and
\* left an entry.
C17_EndingPathsConsume ==
    \A t \in Threads :
        (Resumed(t) /\ req[t].path # "miss") =>
            \/ /\ req[t].path \in EndingPaths
               /\ req[t].pops = 1 /\ req[t].stores = 0
               /\ ~req[t].entryAfter
            \/ /\ req[t].path \in PausingPaths
               /\ req[t].pops = 0 /\ req[t].stores = 1
               /\ req[t].entryAfter

\* C17 witness: a request has ended, with an edit at /review, a run that
\* /confirm had paused.
C17_Witness ==
    \E t \in Threads :
        /\ Resumed(t) /\ req[t].path = "review_edit"
        /\ origin[req[t].state] # NoRef
        /\ PENDING[req[t].run_id] = NoRef

\* C18 (as stated): two resume requests in flight at the same time never both
\* hold the context retrieved under the same run_id.
C18_AtMostOneResumer ==
    \A t \in Threads, t2 \in Threads :
        (t # t2 /\ Resuming(t) /\ Resuming(t2) /\ req[t].run_id = req[t2].run_id) =>
            req[t].state # req[t2].state

\* C19: every step of an engine run and of the web process leaves the previous
\* route_trace of every context as a prefix of its new one, and a context that
\* graph.invoke returns starts with the trace of the context it was invoked on.
C19_TraceAppendOnly ==
    [][/\ IsPrefix(state.route_trace, state'.route_trace)
       /\ Len(heap) <= Len(heap')
       /\ \A o \in 1..Len(heap) : IsPrefix(heap[o].route_trace, heap'[o].route_trace)
       /\ \A o \in (Len(heap) + 1)..Len(heap') :
             origin'[o] # NoRef =>
                 IsPrefix(heap[origin'[o]].route_trace, heap'[o].route_trace)]_vars

\* C19 witness: a context that went through the graph, was paused and was then
\* approved at /review carries the entries of all three stages.
C19_Witness ==
    \E t \in Threads :
        /\ Resumed(t) /\ req[t].path = "review_approve"
        /\ LET tr == heap[req[t].state].route_trace IN
             /\ Len(tr) >= 9
             /\ tr[1] = "classify_intent" /\ tr[6] = "hitl_pause"
             /\ Last(tr) = "finalize"

\* C20 (state part): every store entry holds a context whose run_id is the key.
C20_EntryKeepsRunId ==
    \A id \in RunIds : PENDING[id] # NoRef => heap[PENDING[id]].run_id = id

\* C20: no step of an engine run or of the web process changes the run_id or
\* the user_input of a context, a context returned by graph.invoke has those of
\* the context it was invoked on, and every store entry is under its run_id.
C20_IdentityFrozen ==
    /\ []C20_EntryKeepsRunId
    /\ [][/\ state'.run_id = state.run_id
          /\ state'.user_input = state.user_input
          /\ \A o \in 1..Len(heap) :
                /\ heap'[o].run_id = heap[o].run_id
                /\ heap'[o].user_input = heap[o].user_input
          /\ \A o \in (Len(heap) + 1)..Len(heap') :
                origin'[o] # NoRef =>
                    /\ heap'[o].run_id = heap[origin'[o]].run_id
                    /\ heap'[o].user_input = heap[origin'[o]].user_input]_vars

\* C20 witness: /confirm has stored the context the graph returned over the one
\* /intake built, under the same run_id and with the same user_input.
C20_Witness ==
    \E id \in RunIds :
        /\ PENDING[id] # NoRef /\ origin[PENDING[id]] # NoRef
        /\ heap[PENDING[id]].intent # None
        /\ heap[PENDING[id]].user_input = heap[origin[PENDING[id]]].user_input

\* C21: a /confirm "yes" request that found the context of a cancellation
\* request (id present, no emergency keyword) takes the cancel path: the
\* context it shows has terminal_status READY, the cancellation text as
\* final_response, and a trace with classify_intent, later cancel_confirmed,
\* and finalize as its last entry; the request finishes with one pop that
\* leaves no store entry for the run_id.
C21_CancelScenario ==
    \A t \in Threads :
        (/\ req[t].handler = "confirm" /\ req[t].yes
         /\ req[t].path \notin {None, "miss"}
         /\ IsCancelRequest(heap[req[t].state].user_input)
         /\ heap[req[t].state].meta.appointment_id # None) =>
            LET out == heap[req[t].out]
                tr == out.route_trace
            IN /\ req[t].path = "cancel"
               /\ out.terminal_status = READY
               /\ out.final_response = CancelText
               /\ \E a \in 1..Len(tr), b \in 1..Len(tr) :
                     /\ a < b /\ b < Len(tr)
                     /\ tr[a] = "classify_intent"
                     /\ tr[b] = "cancel_confirmed"
               /\ Last(tr) = "finalize"
               /\ req[t].pc = "idle" => (req[t].pops = 1 /\ ~req[t].entryAfter)

\* C21 witness: a confirmed cancellation has been carried out and the run's
\* entry is gone from the store.
C21_Witness ==
    \E t \in Threads :
        /\ Resumed(t) /\ req[t].path = "cancel"
        /\ heap[req[t].out].final_response = CancelText
        /\ PENDING[req[t].run_id] = NoRef

\* C22: in pause mode over the built graph the engine never invokes finalize and
\* no entry of the human-review step or of finalize is in the trace; a run that
\* returns neither escalated nor missing information went through
\* classify_intent .. hitl, has hitl_pause as its last trace entry and a
\* non-empty draft_response.
C22_PauseReturnsAfterHitl ==
    (cfg.topology = "built" /\ cfg.hitl_mode = "pause" /\ mode # "web") =>
        /\ \A k \in 1..Len(visited) : visited[k] # "finalize"
        /\ \A e \in {"hitl_approve", "hitl_edit", "hitl_completed", "finalize"} :
              ~InTrace(state.route_trace, e)
        /\ (Returned /\ state.terminal_status \notin {ESCALATE, NEED_INFO}) =>
              /\ visited = SubSeq(NodeOrder, 1, 6)
              /\ Last(state.route_trace) = "hitl_pause"
              /\ state.draft_response \notin {None, ""}
              /\ state.terminal_status = None

\* C22 witness: a pause-mode run of the built graph returned with the pause
\* marker last, after one of its steps had failed once and been retried.
C22_Witness ==
    /\ Returned /\ IsBuilt /\ cfg.hitl_mode = "pause"
    /\ state.terminal_status = None
    /\ Last(state.route_trace) = "hitl_pause"
    /\ failures = 1

\* C23 (as stated): every result page of /confirm, /slot or /review shows a
\* context whose terminal_status is set and whose final_response is a
\* non-empty text, whatever requests were sent before for the run_id.
C23_ResultPagesComplete ==
    \A t \in Threads :
        (Resumed(t) /\ req[t].path \in ResultPaths) =>
            /\ PageContext(t).terminal_status \in TerminalStatus
            /\ PageContext(t).final_response \notin {None, ""}

\* C24 (as stated): whenever an engine invocation over the built graph returns,
\* the last trace entry is a stop reason (safety_escalate, need_info,
\* hitl_pause in pause mode, finalize in blocking mode, call_limit_exceeded or
\* node_error:<kind>), and with terminal_status ESCALATE it is safety_escalate,
\* call_limit_exceeded or node_error:<kind>.
C24_LastEntryNamesStop ==
    (Returned /\ cfg.topology = "built") =>
        /\ Last(state.route_trace) \in StopEntries(cfg.hitl_mode)
        /\ state.terminal_status = ESCALATE =>
              Last(state.route_trace) \in EscalateEntries

\* C25 (as stated): a wrapped invocation that made n attempts has slept n - 1
\* times when it returns to the engine, the k-th sleep lasting 2^(k-1) times
\* the base delay.
C25_SleepsBetweenAttempts ==
    (BackInEngine /\ ~tripped) =>
        /\ Len(sleeps) + 1 = attempts
        /\ \A k \in 1..Len(sleeps) : sleeps[k] = Backoff(k - 1)

\* C26 (as stated): no step of an engine run changes a terminal_status that is
\* ESCALATE or NEED_INFO.
C26_TerminalNeverOverwritten ==
    [][state.terminal_status \in {ESCALATE, NEED_INFO} =>
           state'.terminal_status = state.terminal_status]_vars

\* C27 (as stated): no context of a run shows a second graph execution: no
\* step's entry occurs twice in its route_trace, and meta.node_calls is at most
\* the number of nodes of one pause-mode run.
C27_GraphInvokedOnce ==
    \A o \in 1..Len(heap) :
        /\ \A a \in 1..Len(heap[o].route_trace), b \in 1..Len(heap[o].route_trace) :
              (heap[o].route_trace[a] = heap[o].route_trace[b]
               /\ heap[o].route_trace[a] \in PauseStepEntries) => a = b
        /\ heap[o].meta.node_calls <= Len(NodeOrder) - 1

====
